---------------------------- MODULE Spec2Model ----------------------------
(***************************************************************************)
(* Model of the epd-spectra crate: the tri-colour display buffer           *)
(* (src/src/graphics.rs) and the typestate SPI driver (src/src/driver.rs). *)
(*                                                                         *)
(* The display buffer is modelled on a small panel (Rows x 8*RowBytes      *)
(* pixels) built exactly as display_type! builds the real ones; pixel      *)
(* coordinates are 32-bit signed integers and the subtraction of the       *)
(* rotation remapping keeps its width.                                     *)
(***************************************************************************)
EXTENDS Integers, Sequences, FiniteSets, TLC

VARIABLES
    buffer_black,     \* Display.buffer_black : [u8; IMAGE_SIZE]
    buffer_red,       \* Display.buffer_red   : [u8; IMAGE_SIZE]
    rotation,         \* Display.rotation
    overflow_checks,  \* build profile: TRUE = arithmetic overflow panics
    panicked,         \* the thread has panicked (overflow, assert!, unwrap)
    ncalls,           \* number of draw_iter calls made so far
    pending,          \* the pixels handed to a draw_iter call about to run
    epd,              \* typestate of the Epd the caller holds, or "Dropped"
    spi_chunk_size,   \* Epd.spi_chunk_size
    dc,               \* level of the data/command pin
    rst,              \* level of the reset pin
    busy,             \* level of the busy pin (driven by the panel)
    op,               \* the driver operation running or last run
    result,           \* "none", "running", "Ok", an Error variant, or "Panic"
    prog,             \* the collaborator calls the running operation makes, in order
    pc,               \* index in prog of the next call
    log,              \* history: what the operation has done on the pins and the bus
    last_ok,          \* history: the last operation that produced the caller's Epd
    payload,          \* the data handed to a lone Epd::write
    call,             \* history: the last accessor or conversion called, with its value
    shadow            \* history: the colour last written to each physical pixel

fb_vars == <<buffer_black, buffer_red, rotation, overflow_checks, panicked,
             ncalls, pending>>

epd_vars == <<epd, spi_chunk_size, dc, rst, busy, op, result, prog, pc, log,
              last_ok, payload>>

obs_vars == <<call, shadow>>

vars == <<fb_vars, epd_vars, obs_vars>>

---------------------------------------------------------------------------
(* Bounds of the model *)

\* rows of the modelled panel (SIZE_V of its display type)
Rows == 2
\* bytes per row of the modelled panel (SIZE_H / 8 of its display type)
RowBytes == 2
\* draw_iter calls per behaviour of the display-buffer specification
MaxCalls == 2
\* draw_iter calls per behaviour of the driver specification
MaxDraws == 2
\* largest spi_chunk_size a driver is created with
MaxChunk == 2
\* longest payload handed to a lone Epd::write, and its largest chunk size
MaxPayload == 7
MaxWriteChunk == 4

---------------------------------------------------------------------------
(* Machine integers *)

\* i32::MAX and i32::MIN
I32_MAX == (2^30 - 1) * 2 + 1
I32_MIN == -I32_MAX - 1
U8_MAX == 2^8 - 1

InI32(v) == I32_MIN <= v /\ v <= I32_MAX

Min(a, b) == IF a < b THEN a ELSE b
Max(a, b) == IF a > b THEN a ELSE b

\* whether the i32 subtraction a - b overflows (no intermediate leaves i32)
sub_overflows(a, b) ==
    IF b >= 0 THEN a < I32_MIN + b ELSE a > I32_MAX + b

\* a.wrapping_sub(b): the two's complement result of a - b, which is
\* a - b - 2^32 on a positive overflow and a - b + 2^32 on a negative one
wrapping_sub(a, b) ==
    IF ~sub_overflows(a, b) THEN a - b
    ELSE IF b < 0 THEN (a + I32_MIN) - (b - I32_MIN)
    ELSE (a - I32_MIN) - (b + I32_MIN)

\* u8 bit operations, bit by bit
RECURSIVE bitand(_, _)
bitand(a, b) ==
    IF a = 0 \/ b = 0 THEN 0
    ELSE (a % 2) * (b % 2) + 2 * bitand(a \div 2, b \div 2)

RECURSIVE bitor(_, _)
bitor(a, b) ==
    IF a = 0 THEN b
    ELSE IF b = 0 THEN a
    ELSE (IF a % 2 = 1 \/ b % 2 = 1 THEN 1 ELSE 0) + 2 * bitor(a \div 2, b \div 2)

bitnot_u8(a) == U8_MAX - a

\* 1u8 << n for 0 <= n < 8
shl1_u8(n) == 2^n

---------------------------------------------------------------------------
(* graphics.rs: colours, rotation, the display type *)

TriColor == {"White", "Black", "Red"}
DisplayRotation == {"Rotate0", "Rotate90", "Rotate180", "Rotate270"}

\* the Rgb888 values the conversions are applied to: every channel on either
\* side of the two thresholds, and at both ends of its range
Channels == {0, U8_MAX \div 3, U8_MAX \div 3 + 1, U8_MAX \div 2,
             U8_MAX \div 2 + 1, U8_MAX}
Rgb888 == [r : Channels, g : Channels, b : Channels]

\* a conversion that stores the red of TriColor::Red in the blue channel
Rgb888_from_bgr(color) ==
    CASE color = "White" -> [r |-> U8_MAX, g |-> U8_MAX, b |-> U8_MAX]
      [] color = "Black" -> [r |-> 0, g |-> 0, b |-> 0]
      [] color = "Red" -> [r |-> 0, g |-> 0, b |-> U8_MAX]

\* impl From<TriColor> for Rgb888
Rgb888_from(color) ==
    CASE color = "White" -> [r |-> U8_MAX, g |-> U8_MAX, b |-> U8_MAX]
      [] color = "Black" -> [r |-> 0, g |-> 0, b |-> 0]
      [] color = "Red" -> [r |-> U8_MAX, g |-> 0, b |-> 0]

\* impl From<Rgb888> for TriColor
TriColor_from(p) ==
    LET min == Min(Min(p.r, p.g), p.b)
        max == Max(Max(p.r, p.g), p.b)
        chroma == max - min
        brightness == max
    IN IF chroma > U8_MAX \div 3 /\ p.r > p.g /\ p.r > p.b THEN "Red"
       ELSE IF brightness > U8_MAX \div 2 THEN "White"
       ELSE "Black"

\* display_type!($a, $b) = Display<$a, $b, {$a * ($b / 8)}>
\* display_type!($a, $b) = Display<$a, $b, {$a * ($b / 8)}>
display_type(a, b) == [SIZE_V |-> a, SIZE_H |-> b, IMAGE_SIZE |-> a * (b \div 8)]

\* the panel types of the crate
Display1in54 == display_type(152, 152)
Display2in13 == display_type(212, 104)
Display2in66 == display_type(296, 152)
Display2in71 == display_type(264, 176)
Display2in87 == display_type(296, 128)
Display3in70 == display_type(416, 240)
Display4in17 == display_type(300, 400)
Display4in37 == display_type(480, 176)
PanelTypes == {Display1in54, Display2in13, Display2in66, Display2in71,
               Display2in87, Display3in70, Display4in17, Display4in37}

\* the modelled panel, a display_type!(Rows, 8 * RowBytes)
SIZE_V == Rows
SIZE_H == 8 * RowBytes
IMAGE_SIZE == display_type(SIZE_V, SIZE_H).IMAGE_SIZE

\* Display::default
default_buffer == [i \in 1..IMAGE_SIZE |-> 0]
default_rotation == "Rotate0"

\* a size that ignores the rotation
size_unrotated(rot) == [width |-> SIZE_H, height |-> SIZE_V]

\* OriginDimensions::size
size(rot) ==
    IF rot \in {"Rotate0", "Rotate180"}
    THEN [width |-> SIZE_H, height |-> SIZE_V]
    ELSE [width |-> SIZE_V, height |-> SIZE_H]

\* a remapping that subtracts from the number of rows where the code
\* subtracts from the row width, and the other way round
remap_by_height(rot, p) ==
    CASE rot = "Rotate0"   -> [x |-> p.x, y |-> p.y]
      [] rot = "Rotate90"  -> [x |-> wrapping_sub(SIZE_V - 1, p.y), y |-> p.x]
      [] rot = "Rotate180" -> [x |-> wrapping_sub(SIZE_V - 1, p.x),
                               y |-> wrapping_sub(SIZE_H - 1, p.y)]
      [] rot = "Rotate270" -> [x |-> p.y, y |-> wrapping_sub(SIZE_H - 1, p.x)]

\* a remapping that transposes under 90 degrees instead of rotating
remap_transposed(rot, p) ==
    CASE rot = "Rotate0"   -> [x |-> p.x, y |-> p.y]
      [] rot = "Rotate90"  -> [x |-> p.y, y |-> p.x]
      [] rot = "Rotate180" -> [x |-> wrapping_sub(SIZE_H - 1, p.x),
                               y |-> wrapping_sub(SIZE_V - 1, p.y)]
      [] rot = "Rotate270" -> [x |-> p.y, y |-> wrapping_sub(SIZE_V - 1, p.x)]

\* the match on self.rotation in draw_iter of a Display<size_v, size_h, ..>,
\* in the build whose arithmetic wraps: (SIZE_H as i32 - 1 - p.y, p.x) and so
\* on, evaluated left to right
remap_on(size_v, size_h, rot, p) ==
    CASE rot = "Rotate0"   -> [x |-> p.x, y |-> p.y]
      [] rot = "Rotate90"  -> [x |-> wrapping_sub(size_h - 1, p.y), y |-> p.x]
      [] rot = "Rotate180" -> [x |-> wrapping_sub(size_h - 1, p.x),
                               y |-> wrapping_sub(size_v - 1, p.y)]
      [] rot = "Rotate270" -> [x |-> p.y, y |-> wrapping_sub(size_v - 1, p.x)]

\* the same match on the modelled panel
remap(rot, p) == remap_on(SIZE_V, SIZE_H, rot, p)

\* whether one of those subtractions overflows i32 (a panic in a build
\* with overflow checks)
remap_overflows_on(size_v, size_h, rot, p) ==
    CASE rot = "Rotate0"   -> FALSE
      [] rot = "Rotate90"  -> sub_overflows(size_h - 1, p.y)
      [] rot = "Rotate180" -> sub_overflows(size_h - 1, p.x)
                              \/ sub_overflows(size_v - 1, p.y)
      [] rot = "Rotate270" -> sub_overflows(size_v - 1, p.x)

remap_overflows(rot, p) == remap_overflows_on(SIZE_V, SIZE_H, rot, p)

\* the bounds check before the buffers are touched
clipped_on(size_v, size_h, q) ==
    (q.x < 0) \/ (q.x >= size_h) \/ (q.y < 0) \/ (q.y >= size_v)

clipped(q) == clipped_on(SIZE_V, SIZE_H, q)

\* a mask that puts the leftmost pixel of a byte in its least significant bit
pixel_mask_lsb(q) == shl1_u8(q.x % 8)

\* let mask: u8 = 1 << (7 - (x % 8))
pixel_mask(q) == shl1_u8(7 - (q.x % 8))

\* an index that starts every row one row further on
pixel_index_next_row(size_h, q) == ((q.y + 1) * size_h) \div 8 + q.x \div 8

\* y as usize * SIZE_H as usize / 8 + x as usize / 8   (0-based)
pixel_index_on(size_h, q) == (q.y * size_h) \div 8 + q.x \div 8

pixel_index(q) == pixel_index_on(SIZE_H, q)

\* set_color with a Red arm that leaves the black plane alone
set_color_keeps_black(color, b, r, mask) ==
    CASE color = "White" -> [black |-> bitand(b, bitnot_u8(mask)),
                             red   |-> bitand(r, bitnot_u8(mask))]
      [] color = "Black" -> [black |-> bitor(b, mask),
                             red   |-> bitand(r, bitnot_u8(mask))]
      [] color = "Red"   -> [black |-> b,
                             red   |-> bitor(r, mask)]

\* set_color with a Black arm that flips the black bit instead of setting it
set_color_toggles(color, b, r, mask) ==
    CASE color = "White" -> [black |-> bitand(b, bitnot_u8(mask)),
                             red   |-> bitand(r, bitnot_u8(mask))]
      [] color = "Black" -> [black |-> bitor(b, mask) - bitand(b, mask),
                             red   |-> bitand(r, bitnot_u8(mask))]
      [] color = "Red"   -> [black |-> bitand(b, bitnot_u8(mask)),
                             red   |-> bitor(r, mask)]

\* the match on color: the new (black, red) bytes at the index
set_color(color, b, r, mask) ==
    CASE color = "White" -> [black |-> bitand(b, bitnot_u8(mask)),
                             red   |-> bitand(r, bitnot_u8(mask))]
      [] color = "Black" -> [black |-> bitor(b, mask),
                             red   |-> bitand(r, bitnot_u8(mask))]
      [] color = "Red"   -> [black |-> bitand(b, bitnot_u8(mask)),
                             red   |-> bitor(r, mask)]

\* one iteration of the loop of draw_iter on display d = [black, red, panic]
draw_pixel(d, rot, checks, px) ==
    IF d.panic THEN d
    ELSE IF checks /\ remap_overflows(rot, px.p)
    THEN [d EXCEPT !.panic = TRUE]              \* attempt to subtract with overflow
    ELSE LET q == remap(rot, px.p) IN
         IF clipped(q) THEN d                   \* continue
         ELSE LET mask  == pixel_mask(q)
                  index == pixel_index(q)
              IN IF ~(index < IMAGE_SIZE)
                 THEN [d EXCEPT !.panic = TRUE] \* assert!(index < IMAGE_SIZE)
                 ELSE LET n == set_color(px.color, d.black[index + 1],
                                         d.red[index + 1], mask)
                      IN [d EXCEPT !.black[index + 1] = n.black,
                                   !.red[index + 1] = n.red]

\* DrawTarget::draw_iter: the loop over the pixels
RECURSIVE draw_iter(_, _, _, _)
draw_iter(d, rot, checks, pixels) ==
    IF pixels = <<>> THEN d
    ELSE draw_iter(draw_pixel(d, rot, checks, Head(pixels)), rot, checks, Tail(pixels))

---------------------------------------------------------------------------
(* Inputs of the display buffer *)

\* coordinates at and around every edge of the panel, and the ends of i32
Coords == {I32_MIN, -1, 0, SIZE_V - 1, SIZE_V, SIZE_H - 1, SIZE_H, I32_MAX}
Points == [x : Coords, y : Coords]
Pixels == [p : Points, color : TriColor]

\* no draw_iter call is about to run
NoPixels == <<>>

---------------------------------------------------------------------------
(* Actions of the display buffer *)

\* history: nothing has been called on the new display, and nothing written
NoCall == [f |-> "none"]
PhysicalGrid == [x : 0..(SIZE_H - 1), y : 0..(SIZE_V - 1)]
AllWhite == [q \in PhysicalGrid |-> "White"]

FbInit ==
    /\ buffer_black = default_buffer
    /\ buffer_red = default_buffer
    /\ rotation = default_rotation
    /\ overflow_checks \in BOOLEAN
    /\ panicked = FALSE
    /\ ncalls = 0
    /\ pending = NoPixels
    /\ call = NoCall
    /\ shadow = AllWhite

\* no driver operation is in progress on the caller's thread
Idle == result # "running" /\ ~panicked

\* Display::set_rotation
SetRotation ==
    /\ Idle
    /\ pending = NoPixels
    /\ \E r \in DisplayRotation :
         /\ rotation' = r
         /\ call' = [f |-> "set_rotation", in |-> r]
    /\ UNCHANGED <<shadow, buffer_black, buffer_red, overflow_checks, panicked, ncalls,
                   pending, epd_vars>>

\* the caller hands one pixel to draw_iter (the spec's write_pixel(x, y, color))
DrawCall(limit, pixels) ==
    /\ Idle
    /\ pending = NoPixels
    /\ ncalls < limit
    /\ \E px \in pixels : pending' = <<px>>
    /\ ncalls' = ncalls + 1
    /\ UNCHANGED <<obs_vars, buffer_black, buffer_red, rotation, overflow_checks, panicked,
                   epd_vars>>

\* DrawTarget::draw_iter runs on the pixels handed to it
DrawIter ==
    /\ pending # NoPixels
    /\ LET d == draw_iter([black |-> buffer_black, red |-> buffer_red,
                           panic |-> FALSE],
                          rotation, overflow_checks, pending)
       IN /\ buffer_black' = d.black
          /\ buffer_red' = d.red
          /\ panicked' = d.panic
    /\ pending' = NoPixels
    /\ UNCHANGED <<call, rotation, overflow_checks, ncalls, epd_vars>>

\* images that fill the logical rectangle of a rotation row by row, coloured
\* by position, and every leading part of one
Palette == <<"White", "Black", "Red">>
LogicalRect(rot) == [x : 0..(size(rot).width - 1), y : 0..(size(rot).height - 1)]
Image(rot, a, b, c) ==
    [k \in 1..(size(rot).width * size(rot).height) |->
        LET x == (k - 1) % size(rot).width
            y == (k - 1) \div size(rot).width
        IN [p |-> [x |-> x, y |-> y],
            color |-> Palette[((a * x + b * y + c) % 3) + 1]]]
Images(rot) ==
    {SubSeq(Image(rot, a, b, c), 1, n) :
        a \in 0..2, b \in 0..2, c \in 0..2, n \in 1..(SIZE_H * SIZE_V)}

\* the caller hands a whole image to draw_iter on a display it has only rotated
DrawImage ==
    /\ Idle
    /\ pending = NoPixels
    /\ ncalls = 0
    /\ \E img \in Images(rotation) : pending' = img
    /\ ncalls' = ncalls + 1
    /\ UNCHANGED <<obs_vars, buffer_black, buffer_red, rotation, overflow_checks,
                   panicked, epd_vars>>

\* OriginDimensions::size
Size ==
    /\ Idle
    /\ pending = NoPixels
    /\ call' = [f |-> "size", in |-> rotation, out |-> size(rotation)]
    /\ UNCHANGED <<shadow, fb_vars, epd_vars>>

\* Display::rotation, remembering the call it follows
GetRotation ==
    /\ Idle
    /\ pending = NoPixels
    /\ call' = [f |-> "rotation",
                after |-> call.f,
                set |-> IF call.f = "set_rotation" THEN call.in ELSE "none",
                out |-> rotation]
    /\ UNCHANGED <<shadow, fb_vars, epd_vars>>

\* Rgb888::from(TriColor)
ToRgb ==
    /\ Idle
    /\ \E c \in TriColor :
         call' = [f |-> "Rgb888::from", in |-> c, out |-> Rgb888_from(c)]
    /\ UNCHANGED <<shadow, fb_vars, epd_vars>>

\* TriColor::from(Rgb888), on a sampled value or on the value Rgb888::from
\* has just returned (then `of` is the colour that value was made from)
FromRgb ==
    /\ Idle
    /\ \E p \in Rgb888 \cup (IF call.f = "Rgb888::from" THEN {call.out} ELSE {}) :
         call' = [f |-> "TriColor::from", in |-> p, out |-> TriColor_from(p),
                  of |-> IF call.f = "Rgb888::from" /\ call.out = p
                         THEN call.in ELSE "none"]
    /\ UNCHANGED <<shadow, fb_vars, epd_vars>>

\* the logical points of a panel type under a rotation, and the points one
\* pixel around them
PanelPoints(t, rot) ==
    IF rot \in {"Rotate0", "Rotate180"}
    THEN [x : (-1)..t.SIZE_H, y : (-1)..t.SIZE_V]
    ELSE [x : (-1)..t.SIZE_V, y : (-1)..t.SIZE_H]

\* one iteration of the loop of draw_iter on a new display of one of the
\* crate's panel types, up to its assert!; the planes of that display are
\* not kept
PanelWrite ==
    /\ Idle
    /\ call = NoCall
    /\ \E t \in PanelTypes, rot \in DisplayRotation :
         \E p \in PanelPoints(t, rot) :
           LET q == remap_on(t.SIZE_V, t.SIZE_H, rot, p)
               index == pixel_index_on(t.SIZE_H, q)
               outcome ==
                   IF overflow_checks
                      /\ remap_overflows_on(t.SIZE_V, t.SIZE_H, rot, p)
                   THEN "overflow"
                   ELSE IF clipped_on(t.SIZE_V, t.SIZE_H, q) THEN "continue"
                   ELSE IF index < t.IMAGE_SIZE THEN "write"
                   ELSE "assert"
           IN /\ call' = [f |-> "draw_iter", panel |-> t, rotation |-> rot,
                          p |-> p, outcome |-> outcome,
                          index |-> IF outcome \in {"write", "assert"}
                                    THEN index ELSE -1]
              /\ panicked' = (outcome \in {"overflow", "assert"})
    /\ UNCHANGED <<shadow, buffer_black, buffer_red, rotation, overflow_checks,
                   ncalls, pending, epd_vars>>

---------------------------------------------------------------------------
(* History of the physical pixels *)

\* a - b for a panel dimension a, capped at i32::MAX (which is off every panel)
Capped(a, b) == IF b < a - I32_MAX THEN I32_MAX ELSE a - b

\* the physical pixel a logical point designates on a panel w wide and h high
Target(rot, p, w, h) ==
    CASE rot = "Rotate0" -> [x |-> p.x, y |-> p.y]
      [] rot = "Rotate90" -> [x |-> Capped(w - 1, p.y), y |-> p.x]
      [] rot = "Rotate180" -> [x |-> Capped(w - 1, p.x), y |-> Capped(h - 1, p.y)]
      [] rot = "Rotate270" -> [x |-> p.y, y |-> Capped(h - 1, p.x)]

OnPanel(t, w, h) == 0 <= t.x /\ t.x < w /\ 0 <= t.y /\ t.y < h

RECURSIVE Track(_, _, _)
Track(sh, rot, pixels) ==
    IF pixels = <<>> THEN sh
    ELSE LET t == Target(rot, Head(pixels).p, SIZE_H, SIZE_V)
             next == IF OnPanel(t, SIZE_H, SIZE_V)
                     THEN [sh EXCEPT ![t] = Head(pixels).color]
                     ELSE sh
         IN Track(next, rot, Tail(pixels))

\* draw_iter runs, and the history follows the pixels it was handed
Drawn == DrawIter /\ shadow' = Track(shadow, rotation, pending)

---------------------------------------------------------------------------
(* driver.rs: commands and register data *)

Psr == 0
PowerOff == 2
PowerOn == 4
BufferBlack == 16
Refresh == 18
BufferRed == 19
ActiveTemperature == 224
InputTemperature == 229

REG_DATA_SOFT_RESET == <<14>>
REG_DATA_INPUT_TEMP == <<25>>
REG_DATA_ACTIVE_TEMP == <<2>>
REG_DATA_PSR == <<207, 141>>

---------------------------------------------------------------------------
(* driver.rs: the calls each function makes on its collaborators, in order. *)
(* A function is the sequence of its calls; the ? after a fallible call is  *)
(* the step relation below, which ends the operation at the first Err.      *)

DcSet(v) == [i |-> "dc", v |-> v]                \* self.dc.set_high() / set_low()
RstSet(v) == [i |-> "rst", v |-> v]              \* self.rst.set_high() / set_low()
DelayMs(n) == [i |-> "delay", ms |-> n]          \* delay.delay_ms(n)
WaitBusy == [i |-> "busy"]                       \* self.wait_busy()
\* spi.write(bytes); kind tells the opcode write of send_data from its data write
SpiWrite(kind, bytes) == [i |-> "spi", kind |-> kind, bytes |-> bytes]


\* chunks that drops a shorter last slice (chunks_exact)
RECURSIVE chunks_exact(_, _)
chunks_exact(data, n) ==
    IF Len(data) < n THEN <<>>
    ELSE <<SubSeq(data, 1, n)>> \o chunks_exact(SubSeq(data, n + 1, Len(data)), n)

\* <[u8]>::chunks(n), n > 0: successive slices of n bytes, the last one shorter
RECURSIVE chunks(_, _)
chunks(data, n) ==
    IF data = <<>> THEN <<>>
    ELSE LET k == Min(n, Len(data))
         IN <<SubSeq(data, 1, k)>> \o chunks(SubSeq(data, k + 1, Len(data)), n)

\* Epd::write: the slices passed to spi.write, in order
write(chunk_size, data) ==
    IF chunk_size > 0 THEN chunks(data, chunk_size) ELSE <<data>>

SpiWrites(kind, slices) ==
    [k \in 1..Len(slices) |-> SpiWrite(kind, slices[k])]

\* send_data that leaves the data/command line low for the data
send_data_dc_low(chunk_size, cmd, data) ==
    <<DcSet("low")>> \o SpiWrites("cmd", write(chunk_size, <<cmd>>))
    \o SpiWrites("data", write(chunk_size, data))

\* Epd::send_data
send_data(chunk_size, cmd, data) ==
    <<DcSet("low")>> \o SpiWrites("cmd", write(chunk_size, <<cmd>>))
    \o <<DcSet("high")>> \o SpiWrites("data", write(chunk_size, data))

\* a reset that holds the reset line low for 1 ms only
reset_short_pulse ==
    <<DelayMs(1), RstSet("high"), DelayMs(5), RstSet("low"), DelayMs(1),
      RstSet("high"), DelayMs(5)>>

\* Epd::reset
reset ==
    <<DelayMs(1), RstSet("high"), DelayMs(5), RstSet("low"), DelayMs(10),
      RstSet("high"), DelayMs(5)>>

\* Epd::power_on
power_on(chunk_size) == send_data(chunk_size, PowerOn, <<0>>) \o <<WaitBusy>>

\* Epd::soft_reset
soft_reset(chunk_size) ==
    send_data(chunk_size, Psr, REG_DATA_SOFT_RESET) \o <<WaitBusy>>

\* Epd::display_refresh
display_refresh(chunk_size) == send_data(chunk_size, Refresh, <<0>>) \o <<WaitBusy>>

\* init that does not wait for the busy line after the soft reset
init_no_wait(chunk_size) ==
    <<DcSet("high")>> \o reset \o send_data(chunk_size, Psr, REG_DATA_SOFT_RESET)
    \o send_data(chunk_size, InputTemperature, REG_DATA_INPUT_TEMP)
    \o send_data(chunk_size, ActiveTemperature, REG_DATA_ACTIVE_TEMP)
    \o send_data(chunk_size, Psr, REG_DATA_PSR)

\* Epd::init, up to its Ok(..)
init(chunk_size) ==
    <<DcSet("high")>> \o reset \o soft_reset(chunk_size)
    \o send_data(chunk_size, InputTemperature, REG_DATA_INPUT_TEMP)
    \o send_data(chunk_size, ActiveTemperature, REG_DATA_ACTIVE_TEMP)
    \o send_data(chunk_size, Psr, REG_DATA_PSR)

\* update that refreshes before it powers on
update_refresh_first(chunk_size, black, red) ==
    send_data(chunk_size, BufferBlack, black)
    \o send_data(chunk_size, BufferRed, red)
    \o display_refresh(chunk_size) \o power_on(chunk_size)

\* Epd::update; black and red are display.get_buffer_black() / get_buffer_red()
update(chunk_size, black, red) ==
    send_data(chunk_size, BufferBlack, black)
    \o send_data(chunk_size, BufferRed, red)
    \o power_on(chunk_size) \o display_refresh(chunk_size)

\* power_off that leaves the reset line as it is
power_off_keeps_reset(chunk_size) ==
    send_data(chunk_size, PowerOff, <<0>>)
    \o <<WaitBusy, DcSet("low"), DelayMs(150)>>

\* power_off that cuts the reset line before the discharge delay
power_off_early_reset(chunk_size) ==
    send_data(chunk_size, PowerOff, <<0>>)
    \o <<WaitBusy, DcSet("low"), RstSet("low"), DelayMs(150)>>

\* Epd::power_off, up to its Ok(..)
power_off(chunk_size) ==
    send_data(chunk_size, PowerOff, <<0>>)
    \o <<WaitBusy, DcSet("low"), DelayMs(150), RstSet("low")>>

\* map_err that reports a reset-line error as a data/command-line error
map_err_rst_as_dc(instr) ==
    CASE instr.i = "spi" -> "Spi"
      [] instr.i = "dc"  -> "GpioDc"
      [] instr.i = "rst" -> "GpioDc"

\* .map_err(Error::..) on the call that failed
map_err(instr) ==
    CASE instr.i = "spi" -> "Spi"
      [] instr.i = "dc"  -> "GpioDc"
      [] instr.i = "rst" -> "GpioRst"

\* the typestate of the Epd that new, init and power_off return
new_state == "Inactive"
init_ok_state == "Active"
\* a power_off that returns its Epd typed Active
power_off_stays_active == "Active"
power_off_ok_state == "Inactive"

\* what an Err return leaves of the Epd: init and power_off take self by value
\* and return only the error, update borrows it
epd_after_err(o, s) == IF o \in {"init", "power_off"} THEN "Dropped" ELSE s

\* the Epd after an Ok return
epd_after_ok(o, s) ==
    CASE o = "init"      -> init_ok_state
      [] o = "power_off" -> power_off_ok_state
      [] OTHER           -> s

---------------------------------------------------------------------------
(* Actions of the driver *)

Levels == {"low", "high"}
ChunkSizes == 0..MaxChunk

\* the pixels the caller of the driver draws before an update
DriverPixels ==
    { [p |-> [x |-> 0, y |-> 0], color |-> "Black"],
      [p |-> [x |-> SIZE_H - 1, y |-> SIZE_V - 1], color |-> "Red"] }

\* Epd::new on pins in any state
EpdInit ==
    /\ epd = new_state
    /\ spi_chunk_size \in ChunkSizes
    /\ dc \in Levels
    /\ rst \in Levels
    /\ busy \in Levels
    /\ op = "none"
    /\ result = "none"
    /\ prog = <<>>
    /\ pc = 1
    /\ log = <<>>
    /\ last_ok = "new"
    /\ payload = <<>>

\* Epd::new again, after an Epd was lost to an Err
New ==
    /\ Idle
    /\ pending = NoPixels
    /\ epd = "Dropped"
    /\ epd' = new_state
    /\ spi_chunk_size' \in ChunkSizes
    /\ op' = "none"
    /\ result' = "none"
    /\ prog' = <<>>
    /\ pc' = 1
    /\ log' = <<>>
    /\ last_ok' = "new"
    /\ UNCHANGED <<obs_vars, fb_vars, dc, rst, busy, payload>>

\* the caller enters an operation
Call(o, p) ==
    /\ Idle
    /\ pending = NoPixels
    /\ op' = o
    /\ result' = "running"
    /\ prog' = p
    /\ pc' = 1
    /\ log' = <<>>
    /\ UNCHANGED <<obs_vars, fb_vars, epd, spi_chunk_size, dc, rst, busy, last_ok, payload>>

\* impl Epd<Inactive, ..>: init(self, ..)
InitCall == epd = "Inactive" /\ Call("init", init(spi_chunk_size))

\* impl Epd<Active, ..>: update(&mut self, display, ..)
UpdateCall ==
    epd = "Active" /\ Call("update", update(spi_chunk_size, buffer_black, buffer_red))

\* impl Epd<Active, ..>: power_off(self, ..)
PowerOffCall == epd = "Active" /\ Call("power_off", power_off(spi_chunk_size))

Running == result = "running" /\ ~panicked /\ pc <= Len(prog)

\* the call at pc returns Ok(()) (delay_ms returns nothing)
StepOk ==
    /\ Running
    /\ LET instr == prog[pc] IN
       /\ instr.i \in {"dc", "rst", "delay", "spi"}
       /\ dc' = IF instr.i = "dc" THEN instr.v ELSE dc
       /\ rst' = IF instr.i = "rst" THEN instr.v ELSE rst
       /\ log' = Append(log, IF instr.i = "spi"
                             THEN [i |-> "spi", kind |-> instr.kind,
                                   bytes |-> instr.bytes, dc |-> dc]
                             ELSE instr)
    /\ pc' = pc + 1
    /\ UNCHANGED <<obs_vars, fb_vars, epd, spi_chunk_size, busy, op, result, prog, last_ok,
                   payload>>

\* the call at pc returns Err(e): map_err(..)? returns from the operation
StepErr ==
    /\ Running
    /\ LET instr == prog[pc] IN
       /\ instr.i \in {"dc", "rst", "spi"}
       /\ result' = map_err(instr)
       /\ log' = Append(log, [i |-> "err", of |-> instr.i])
    /\ epd' = epd_after_err(op, epd)
    /\ UNCHANGED <<obs_vars, fb_vars, spi_chunk_size, dc, rst, busy, op, prog, pc, last_ok,
                   payload>>

\* a wait_busy that gives up on a low line and goes on
WaitBusyTimeout ==
    /\ Running
    /\ prog[pc].i = "busy"
    /\ busy = "low"
    /\ pc' = pc + 1
    /\ UNCHANGED <<obs_vars, fb_vars, epd, spi_chunk_size, dc, rst, busy, op, result, prog,
                   log, last_ok, payload>>

\* wait_busy: is_low() reads low, the loop goes round
WaitBusyLow ==
    /\ Running
    /\ prog[pc].i = "busy"
    /\ busy = "low"
    /\ UNCHANGED vars

\* wait_busy: is_low() reads high, the loop ends
WaitBusyHigh ==
    /\ Running
    /\ prog[pc].i = "busy"
    /\ busy = "high"
    /\ log' = Append(log, WaitBusy)
    /\ pc' = pc + 1
    /\ UNCHANGED <<obs_vars, fb_vars, epd, spi_chunk_size, dc, rst, busy, op, result, prog,
                   last_ok, payload>>

\* wait_busy: is_low() returns Err and unwrap() panics
WaitBusyPanic ==
    /\ Running
    /\ prog[pc].i = "busy"
    /\ panicked' = TRUE
    /\ result' = "Panic"
    /\ epd' = epd_after_err(op, epd)
    /\ UNCHANGED <<obs_vars, buffer_black, buffer_red, rotation, overflow_checks, ncalls,
                   pending, spi_chunk_size, dc, rst, busy, op, prog, pc, log,
                   last_ok, payload>>

\* the operation reaches its Ok(..)
ReturnOk ==
    /\ result = "running"
    /\ ~panicked
    /\ pc = Len(prog) + 1
    /\ result' = "Ok"
    /\ epd' = epd_after_ok(op, epd)
    /\ last_ok' = IF op \in {"init", "power_off"} THEN op ELSE last_ok
    /\ UNCHANGED <<obs_vars, fb_vars, spi_chunk_size, dc, rst, busy, op, prog, pc, log,
                   payload>>

\* the panel drives its busy line
PanelBusy ==
    /\ ~panicked
    /\ busy' = IF busy = "low" THEN "high" ELSE "low"
    /\ UNCHANGED <<obs_vars, fb_vars, epd, spi_chunk_size, dc, rst, op, result, prog, pc,
                   log, last_ok, payload>>

---------------------------------------------------------------------------
(* Specifications *)

\* the display buffer alone
InitFb == FbInit /\ EpdInit /\ spi_chunk_size = 0 /\ dc = "low" /\ rst = "low"
                 /\ busy = "high"
WritePixel == DrawCall(MaxCalls, Pixels)
NextFb == SetRotation \/ WritePixel \/ Drawn
SpecFb == InitFb /\ [][NextFb]_vars

\* whole images drawn on a new display under each rotation
NextImage == SetRotation \/ DrawImage \/ Drawn
SpecImage == InitFb /\ [][NextImage]_vars

\* the accessors of the display and the colour conversions
NextApi == SetRotation \/ Size \/ GetRotation \/ ToRgb \/ FromRgb
SpecApi == InitFb /\ [][NextApi]_vars

\* one pixel written on a display of each panel type of the crate
NextPanel == PanelWrite
SpecPanel == InitFb /\ [][NextPanel]_vars

\* the driver, with a caller that draws and then drives the panel
Init == FbInit /\ EpdInit
Draw == DrawCall(MaxDraws, DriverPixels)
Next ==
    \/ Draw \/ Drawn
    \/ New \/ InitCall \/ UpdateCall \/ PowerOffCall
    \/ StepOk \/ StepErr \/ WaitBusyLow \/ WaitBusyHigh \/ WaitBusyPanic
    \/ ReturnOk \/ PanelBusy
Spec == Init /\ [][Next]_vars

\* the driver on a thread that keeps running: a collaborator call that is due
\* returns, an operation that has made its last call returns, and a busy line
\* that stays high is read high by the polling loop (a line that is high only
\* between two polls need never be read high)
Fairness ==
    /\ WF_vars(StepOk \/ StepErr)
    /\ WF_vars(ReturnOk)
    /\ WF_vars(WaitBusyHigh)
SpecLive == Init /\ [][Next]_vars /\ Fairness

\* Epd::write alone, on every payload and chunk size
WriteBytes == {0, 255}
RECURSIVE SeqsUpTo(_, _)
SeqsUpTo(S, n) ==
    IF n = 0 THEN {<<>>}
    ELSE LET shorter == SeqsUpTo(S, n - 1)
         IN shorter \cup {Append(q, b) : q \in {r \in shorter : Len(r) = n - 1}, b \in S}
InitWrite ==
    /\ FbInit
    /\ epd = new_state
    /\ spi_chunk_size \in 0..MaxWriteChunk
    /\ payload \in SeqsUpTo(WriteBytes, MaxPayload)
    /\ dc = "high" /\ rst = "high" /\ busy = "high"
    /\ op = "write"
    /\ result = "running"
    /\ prog = SpiWrites("data", write(spi_chunk_size, payload))
    /\ pc = 1
    /\ log = <<>>
    /\ last_ok = "new"
NextWrite == StepOk \/ StepErr \/ ReturnOk
SpecWrite == InitWrite /\ [][NextWrite]_vars

---------------------------------------------------------------------------
(* Views of the state used by the properties *)

\* bit k (0 = least significant) of byte b
Bit(b, k) == (b \div (2^k)) % 2

\* the logical point lies outside [0, width) x [0, height)
Outside(p, sz) == p.x < 0 \/ p.x >= sz.width \/ p.y < 0 \/ p.y >= sz.height

\* a step in which draw_iter runs on the pixel handed to it
DrawIterRuns == pending # NoPixels /\ pending' = NoPixels

IsPrefix(s, t) == Len(s) <= Len(t) /\ s = SubSeq(t, 1, Len(s))

\* an event of the bus transcript: a byte written with the data/command
\* line at a level, or a completed busy-wait
Opcode(b) == [e |-> "byte", dcl |-> "low", b |-> b]
Data(b) == [e |-> "byte", dcl |-> "high", b |-> b]
BusyWait == [e |-> "busy", dcl |-> "any", b |-> 0]
DataBytes(bytes) == [k \in 1..Len(bytes) |-> Data(bytes[k])]

\* the bus transcript of a log: every byte written, in order, with the level
\* the data/command line had, and the busy-waits between them
RECURSIVE BusView(_)
BusView(l) ==
    IF l = <<>> THEN <<>>
    ELSE LET ev == Head(l)
             here == CASE ev.i = "spi" ->
                            [k \in 1..Len(ev.bytes) |->
                               [e |-> "byte", dcl |-> ev.dc, b |-> ev.bytes[k]]]
                       [] ev.i = "busy" -> <<BusyWait>>
                       [] OTHER -> <<>>
         IN here \o BusView(Tail(l))

\* the events of a log of one kind, in order
RECURSIVE Only(_, _)
Only(l, kind) ==
    IF l = <<>> THEN <<>>
    ELSE (IF Head(l).i = kind THEN <<Head(l)>> ELSE <<>>) \o Only(Tail(l), kind)

Indexes(l, kind) == {k \in 1..Len(l) : l[k].i = kind}
Smallest(S) == CHOOSE k \in S : \A j \in S : k <= j
Largest(S) == CHOOSE k \in S : \A j \in S : k >= j

Errors == {"Spi", "GpioDc", "GpioRst"}

---------------------------------------------------------------------------
(* Properties *)

\* C1: plane exclusivity. After any sequence of pixel writes and rotation
\* changes on a new display, no bit is set in both the black and the red
\* plane, at any byte index and bit position.
PlaneExclusivity ==
    \A i \in 1..IMAGE_SIZE : \A k \in 0..7 :
        ~(Bit(buffer_black[i], k) = 1 /\ Bit(buffer_red[i], k) = 1)

\* a display under a rotation holding black and red pixels after several writes
PlaneExclusivityWitness ==
    /\ ncalls >= 2 /\ pending = NoPixels /\ rotation = "Rotate90"
    /\ \E i \in 1..IMAGE_SIZE : buffer_black[i] # 0
    /\ \E i \in 1..IMAGE_SIZE : buffer_red[i] # 0

\* C2: lifecycle typing. new yields Inactive; init runs only on an Inactive
\* driver and yields Active; update runs only on an Active driver and leaves
\* it Active; power_off runs only on an Active driver and yields Inactive;
\* so an update only ever runs on a driver whose last state change was a
\* successful init.
LifecycleTyping ==
    /\ (op = "none" => epd = "Inactive")
    /\ (op = "init" /\ result = "running" => epd = "Inactive")
    /\ (op = "init" /\ result = "Ok" => epd = "Active")
    /\ (op = "update" /\ result \in {"running", "Ok"} =>
            epd = "Active" /\ last_ok = "init")
    /\ (op = "update" /\ result \in Errors => last_ok = "init")
    /\ (op = "power_off" /\ result = "running" => epd = "Active" /\ last_ok = "init")
    /\ (op = "power_off" /\ result = "Ok" => epd = "Inactive")
    /\ (epd = "Active" => last_ok = "init")

\* an update that completed on an initialized driver
LifecycleTypingWitness ==
    op = "update" /\ result = "Ok" /\ epd = "Active" /\ last_ok = "init"

\* the bus transcript of a whole init
InitBus ==
    <<Opcode(0), Data(14), BusyWait, Opcode(229), Data(25), Opcode(224), Data(2),
      Opcode(0), Data(207), Data(141)>>

\* C3: the transcript of init. What init has put on the bus is at every
\* moment a prefix of: opcode 0x00, data 0x0E, busy-wait, opcode 0xE5, data
\* 0x19, opcode 0xE0, data 0x02, opcode 0x00, data 0xCF 0x8D; a successful
\* init has emitted all of it; and before the first bus write the
\* data/command line was driven high and the reset line high, low, high.
InitTranscript ==
    op = "init" =>
        /\ IsPrefix(BusView(log), InitBus)
        /\ (result = "Ok" => BusView(log) = InitBus)
        /\ (Indexes(log, "spi") # {} =>
              LET before == SubSeq(log, 1, Smallest(Indexes(log, "spi")) - 1)
              IN /\ Only(before, "dc") # <<>>
                 /\ Only(before, "dc")[1].v = "high"
                 /\ [k \in 1..Len(Only(before, "rst")) |-> Only(before, "rst")[k].v]
                      = <<"high", "low", "high">>)

\* a successful init of a driver that chunks its writes byte by byte
InitTranscriptWitness ==
    op = "init" /\ result = "Ok" /\ spi_chunk_size = 1 /\ Len(log) > Len(InitBus)

\* the bus transcript of a whole update of the display as it is
UpdateBus ==
    <<Opcode(16)>> \o DataBytes(buffer_black) \o <<Opcode(19)>>
    \o DataBytes(buffer_red)
    \o <<Opcode(4), Data(0), BusyWait, Opcode(18), Data(0), BusyWait>>

\* C4: the transcript of update. What a running update has put on the bus
\* is, after each of its steps, a prefix of: opcode 0x10, the whole black
\* plane, opcode 0x13, the whole red plane, opcode 0x04, data 0x00, busy-wait,
\* opcode 0x12, data 0x00, busy-wait (so the refresh opcode follows the
\* busy-wait of power-on); the step that returns Ok has all of it behind it;
\* and no step of an update changes the display buffers.
UpdateTranscript ==
    [][op = "update" /\ result = "running" =>
          /\ buffer_black' = buffer_black
          /\ buffer_red' = buffer_red
          /\ IsPrefix(BusView(log'), UpdateBus)
          /\ (result' = "Ok" => BusView(log') = UpdateBus)]_vars

\* a successful chunked update that sent a display holding black and red pixels
UpdateTranscriptWitness ==
    /\ op = "update" /\ result = "Ok" /\ spi_chunk_size = 1
    /\ BusView(log) = UpdateBus
    /\ \E i \in 1..IMAGE_SIZE : buffer_black[i] # 0
    /\ \E i \in 1..IMAGE_SIZE : buffer_red[i] # 0

\* the bus transcript of a whole power_off
PowerOffBus == <<Opcode(2), Data(0), BusyWait>>

\* C5: the transcript of power_off. The bus carries at every moment a prefix
\* of opcode 0x02, data 0x00, busy-wait, and nothing after the busy-wait; the
\* reset line is driven low only after a delay of at least 150 ms; a
\* successful power_off has done, after the busy-wait, exactly: data/command
\* low, a delay of at least 150 ms, reset low.
PowerOffTranscript ==
    op = "power_off" =>
        /\ IsPrefix(BusView(log), PowerOffBus)
        /\ \A k \in Indexes(log, "rst") :
              log[k].v = "low" =>
                 \E j \in 1..(k - 1) : log[j].i = "delay" /\ log[j].ms >= 150
        /\ \A k \in Indexes(log, "spi") : \A j \in Indexes(log, "busy") : k < j
        /\ (result = "Ok" =>
              /\ BusView(log) = PowerOffBus
              /\ LET b == Largest(Indexes(log, "busy"))
                     after == SubSeq(log, b + 1, Len(log))
                 IN /\ Len(after) = 3
                    /\ after[1] = [i |-> "dc", v |-> "low"]
                    /\ after[2].i = "delay" /\ after[2].ms >= 150
                    /\ after[3] = [i |-> "rst", v |-> "low"])

\* a successful power_off, which leaves both lines low
PowerOffTranscriptWitness ==
    op = "power_off" /\ result = "Ok" /\ rst = "low" /\ dc = "low"

\* C6: command framing. In every operation, every bus write of an opcode is
\* a single byte written with the data/command line low, every bus write of
\* payload happens with the line high, and the line was last driven to that
\* level by the operation itself.
CommandFraming ==
    \A k \in Indexes(log, "spi") :
        /\ (log[k].kind = "cmd" => log[k].dc = "low" /\ Len(log[k].bytes) = 1)
        /\ (log[k].kind = "data" => log[k].dc = "high")
        /\ \E j \in 1..(k - 1) :
              /\ log[j].i = "dc"
              /\ log[j].v = log[k].dc
              /\ \A m \in (j + 1)..(k - 1) : log[m].i = "spi"

\* an update that has written a plane as payload in one bus write
CommandFramingWitness ==
    /\ op = "update"
    /\ \E k \in Indexes(log, "spi") :
          log[k].kind = "data" /\ Len(log[k].bytes) = IMAGE_SIZE /\ log[k].dc = "high"

\* the slices a write has passed to the bus, and slices joined in order
RECURSIVE Concat(_)
Concat(groups) == IF groups = <<>> THEN <<>> ELSE Head(groups) \o Concat(Tail(groups))
Groups == [k \in 1..Len(Only(log, "spi")) |-> Only(log, "spi")[k].bytes]

\* C7: chunking. A completed write with chunk size c > 0 has called the bus
\* with groups of at most c bytes, all but the last of exactly c, which
\* concatenate to the payload; with chunk size 0 it has called the bus once,
\* with the whole payload.
Chunking ==
    op = "write" /\ result = "Ok" =>
        IF spi_chunk_size > 0
        THEN /\ \A k \in 1..Len(Groups) :
                  /\ Len(Groups[k]) <= spi_chunk_size
                  /\ (k < Len(Groups) => Len(Groups[k]) = spi_chunk_size)
             /\ Concat(Groups) = payload
        ELSE Groups = <<payload>>

\* 7 bytes written with chunk size 3: groups of 3, 3 and 1 bytes
ChunkingWitness ==
    /\ op = "write" /\ result = "Ok" /\ spi_chunk_size = 3 /\ Len(payload) = 7
    /\ [k \in 1..Len(Groups) |-> Len(Groups[k])] = <<3, 3, 1>>

\* C8: handle retention on failure. After a failed init the caller holds an
\* Inactive driver, after a failed power_off an Active one.
HandleRetention ==
    /\ (op = "init" /\ result \in Errors => epd = "Inactive")
    /\ (op = "power_off" /\ result \in Errors => epd = "Active")

\* C9: fail-fast error propagation. A failed collaborator call is the last
\* thing its operation does, and the operation's result is the error variant
\* of that collaborator: Spi for the bus, GpioDc for the data/command line,
\* GpioRst for the reset line; an operation ends in an error only that way.
FailFast ==
    /\ \A k \in Indexes(log, "err") :
          /\ k = Len(log)
          /\ result = (CASE log[k].of = "spi" -> "Spi"
                         [] log[k].of = "dc"  -> "GpioDc"
                         [] log[k].of = "rst" -> "GpioRst")
    /\ (result \in Errors => log # <<>> /\ log[Len(log)].i = "err")

\* a power_off that failed on the reset line after its delay
FailFastWitness ==
    /\ op = "power_off" /\ result = "GpioRst"
    /\ \E j \in 1..Len(log) : log[j].i = "delay"

\* C10: clip safety. Under every rotation, draw_iter on a pixel outside the
\* logical size leaves both planes unchanged and does not panic.
ClipSafety ==
    [][DrawIterRuns /\ Outside(pending[1].p, size(rotation)) =>
          /\ buffer_black' = buffer_black
          /\ buffer_red' = buffer_red
          /\ ~panicked']_vars

---------------------------------------------------------------------------
(* Views of the planes *)

\* the bit of a plane that belongs to physical pixel q: rows of SIZE_H / 8
\* bytes, the leftmost pixel of a byte in its most significant bit
Lit(plane, q) == Bit(plane[q.y * (SIZE_H \div 8) + q.x \div 8 + 1], 7 - (q.x % 8))

\* the colour physical pixel q decodes to
Decode(black, red, q) ==
    CASE Lit(black, q) = 0 /\ Lit(red, q) = 0 -> "White"
      [] Lit(black, q) = 1 /\ Lit(red, q) = 0 -> "Black"
      [] Lit(black, q) = 0 /\ Lit(red, q) = 1 -> "Red"
      [] OTHER -> "Both"

\* the step writes pixel px as on a panel whose first physical coordinate
\* ranges over [0, w) and whose second ranges over [0, h): the designated
\* physical pixel takes the colour and every other one keeps its own, or the
\* designated pixel is off the panel and both planes stay as they are
WritesAs(px, w, h) ==
    LET t == Target(rotation, px.p, w, h)
    IN IF OnPanel(t, w, h)
       THEN /\ t \in PhysicalGrid
            /\ \A q \in PhysicalGrid :
                  Decode(buffer_black', buffer_red', q) =
                      IF q = t THEN px.color
                      ELSE Decode(buffer_black, buffer_red, q)
       ELSE buffer_black' = buffer_black /\ buffer_red' = buffer_red

\* C11, as stated: the remapping subtracts from the panel height H (the
\* number of rows), px ranges over [0, H) and py over [0, W), W the row width.
RotationMappingByHeight ==
    [][DrawIterRuns /\ ~panicked' => WritesAs(pending[1], SIZE_V, SIZE_H)]_vars

\* C11: rotation mapping. draw_iter maps the logical point (x, y) to the
\* physical pixel (x, y), (W-1-y, x), (W-1-x, H-1-y) or (y, H-1-x) under
\* 0, 90, 180 or 270 degrees, W the row width and H the number of rows; it
\* writes that pixel when it lies in [0, W) x [0, H) and otherwise changes
\* nothing, and it panics only on a pixel that is off the panel.
RotationMapping ==
    [][DrawIterRuns =>
          /\ WritesAs(pending[1], SIZE_H, SIZE_V)
          /\ (panicked' =>
                 ~OnPanel(Target(rotation, pending[1].p, SIZE_H, SIZE_V),
                          SIZE_H, SIZE_V))]_vars

\* the logical origin, written in red under 90 degrees, is the last pixel of
\* the first physical row
RotationMappingWitness ==
    /\ rotation = "Rotate90"
    /\ pending = NoPixels
    /\ SIZE_H # SIZE_V
    /\ Decode(buffer_black, buffer_red, [x |-> SIZE_H - 1, y |-> 0]) = "Red"
    /\ \A q \in PhysicalGrid :
          q # [x |-> SIZE_H - 1, y |-> 0] => Decode(buffer_black, buffer_red, q) = "White"

\* a logical point of an image sz.width wide and sz.height high, after the
\* image is turned clockwise by a rotation
Clockwise(rot, p, sz) ==
    CASE rot = "Rotate0" -> p
      [] rot = "Rotate90" -> [x |-> sz.height - 1 - p.y, y |-> p.x]
      [] rot = "Rotate180" -> [x |-> sz.width - 1 - p.x, y |-> sz.height - 1 - p.y]
      [] rot = "Rotate270" -> [x |-> p.y, y |-> sz.width - 1 - p.x]

Turned(rot, img) ==
    [k \in 1..Len(img) |->
        [p |-> Clockwise(rot, img[k].p, size(rot)), color |-> img[k].color]]

\* the remapping of a rotation is one-to-one from its logical rectangle onto
\* the physical grid
Bijection(rot) ==
    /\ {remap(rot, p) : p \in LogicalRect(rot)} = PhysicalGrid
    /\ Cardinality(LogicalRect(rot)) = Cardinality(PhysicalGrid)

\* C12: rotation round-trip. Drawing an image that lies within the logical
\* size under rotation R leaves in both planes the bytes that drawing the
\* image turned clockwise by R leaves under 0 degrees, without a panic, and
\* the remapping of R is a bijection from the logical rectangle onto the
\* physical grid.
RotationRoundTrip ==
    /\ [](Bijection(rotation))
    /\ [][DrawIterRuns =>
            LET turned == draw_iter([black |-> buffer_black, red |-> buffer_red,
                                     panic |-> FALSE],
                                    "Rotate0", overflow_checks,
                                    Turned(rotation, pending))
            IN /\ buffer_black' = turned.black
               /\ buffer_red' = turned.red
               /\ ~panicked' /\ ~turned.panic]_vars

\* an image of all three colours that covers the panel was drawn under 270
\* degrees
RotationRoundTripWitness ==
    /\ rotation = "Rotate270" /\ ncalls = 1 /\ pending = NoPixels
    /\ \A c \in {"Black", "Red"} :
          Cardinality({q \in PhysicalGrid :
                         Decode(buffer_black, buffer_red, q) = c}) >= SIZE_V

\* C13: idempotence. Under every rotation and from every reachable display,
\* running draw_iter again on the pixel it has just written leaves both
\* planes (and the outcome of the call) exactly as the first write left them.
Idempotence ==
    [][DrawIterRuns =>
          LET once == [black |-> buffer_black', red |-> buffer_red',
                       panic |-> panicked']
          IN draw_iter(once, rotation, overflow_checks, pending) = once]_vars

\* a black pixel written over earlier writes under 180 degrees
IdempotenceWitness ==
    /\ rotation = "Rotate180" /\ ncalls >= 2 /\ pending = NoPixels
    /\ shadow[[x |-> SIZE_H - 1, y |-> SIZE_V - 1]] = "Black"
    /\ Decode(buffer_black, buffer_red, [x |-> SIZE_H - 1, y |-> SIZE_V - 1]) = "Black"

\* C14: colour round-trip. Rgb888::from gives White = 0xFFFFFF, Black =
\* 0x000000 and Red = 0xFF0000; TriColor::from applied to the value that
\* Rgb888::from returned for a colour returns that colour; and it answers Red
\* only when red is the largest channel and the chroma is above a third of
\* the scale, White only above half brightness and Black only at or below it.
ColourRoundTrip ==
    /\ call.f = "Rgb888::from" =>
          call.out = (CASE call.in = "White" -> [r |-> 255, g |-> 255, b |-> 255]
                        [] call.in = "Black" -> [r |-> 0, g |-> 0, b |-> 0]
                        [] call.in = "Red" -> [r |-> 255, g |-> 0, b |-> 0])
    /\ call.f = "TriColor::from" =>
          LET p == call.in
              hi == CHOOSE v \in {p.r, p.g, p.b} : \A u \in {p.r, p.g, p.b} : u <= v
              lo == CHOOSE v \in {p.r, p.g, p.b} : \A u \in {p.r, p.g, p.b} : v <= u
              red == p.r > p.g /\ p.r > p.b /\ 3 * (hi - lo) > 255
          IN /\ call.of # "none" => call.out = call.of
             /\ call.out = "Red" <=> red
             /\ call.out = "White" <=> ~red /\ 2 * hi > 255
             /\ call.out = "Black" <=> ~red /\ 2 * hi <= 255

\* Red went to Rgb888 and came back
ColourRoundTripWitness ==
    /\ call.f = "TriColor::from"
    /\ call.of = "Red" /\ call.in = [r |-> 255, g |-> 0, b |-> 0]
    /\ call.out = "Red"

\* the running operation is in the loop of wait_busy
AtBusyWait == Running /\ prog[pc].i = "busy"

\* C15: busy-wait termination. If every busy-wait that is entered is left
\* again (its poll reads high), every operation returns, and so it does when
\* the busy line comes to stay high; an operation returns or stays in one
\* busy-wait for ever; it has returned Ok only after as many busy-waits read
\* high as it contains; and while the line is low a step moves it neither
\* past the busy-wait nor to a result, nor adds to what it has emitted.
BusyWaitTermination ==
    /\ [](AtBusyWait => <>~AtBusyWait) =>
          ((result = "running") ~> (result # "running"))
    /\ <>[](busy = "high") => ((result = "running") ~> (result # "running"))
    /\ [](result = "running" => <>(result # "running") \/ <>[]AtBusyWait)
    /\ [](result = "Ok" =>
            Len(Only(log, "busy")) = Cardinality(Indexes(prog, "busy")))
    /\ [][AtBusyWait /\ busy = "low" /\ ~panicked' =>
            pc' = pc /\ log' = log /\ result' = result]_vars

\* update is in its second busy-wait and the busy line is low
BusyWaitTerminationWitness ==
    /\ op = "update" /\ AtBusyWait /\ busy = "low"
    /\ Len(Only(log, "busy")) = 1

\* what a log shows of the reset line: its levels and the delays, in order
OnResetLine(ev) == ev.i \in {"rst", "delay"}
ResetLine(l) == SelectSeq(l, OnResetLine)

\* C16: the hardware reset pulse. When init has written its first byte to
\* the bus, it has before that driven the reset line high, waited at least
\* 1 ms, driven it low, waited at least 10 ms, driven it high and waited at
\* least 5 ms, in that order and with nothing else done to the line since.
ResetPulse ==
    op = "init" /\ Indexes(log, "spi") # {} =>
        LET first == Smallest(Indexes(log, "spi"))
            line == ResetLine(SubSeq(log, 1, first - 1))
            n == Len(line)
        IN /\ n >= 6
           /\ line[n - 5] = RstSet("high")
           /\ line[n - 4].i = "delay" /\ line[n - 4].ms >= 1
           /\ line[n - 3] = RstSet("low")
           /\ line[n - 2].i = "delay" /\ line[n - 2].ms >= 10
           /\ line[n - 1] = RstSet("high")
           /\ line[n].i = "delay" /\ line[n].ms >= 5
           /\ log[first].kind = "cmd"

\* init has just written its first opcode
ResetPulseWitness ==
    /\ op = "init" /\ result = "running"
    /\ Cardinality(Indexes(log, "spi")) = 1

\* C17: logical size. size() returns (W, H) under 0 and 180 degrees and
\* (H, W) under 90 and 270 degrees, W = 8 * RowBytes the row width and H =
\* Rows the number of rows; rotation() called right after set_rotation(r)
\* returns r, and called first on a new display returns Rotate0.
LogicalSize ==
    /\ call.f = "size" =>
          call.out = IF call.in \in {"Rotate0", "Rotate180"}
                     THEN [width |-> 8 * RowBytes, height |-> Rows]
                     ELSE [width |-> Rows, height |-> 8 * RowBytes]
    /\ call.f = "size" => call.in = rotation
    /\ call.f = "rotation" /\ call.after = "set_rotation" => call.out = call.set
    /\ call.f = "rotation" /\ call.after = "none" => call.out = "Rotate0"

\* size() was called under 90 degrees
LogicalSizeWitness ==
    /\ call.f = "size" /\ call.in = "Rotate90"
    /\ call.out.width = Rows /\ call.out.width # call.out.height

\* C18: no arithmetic failure. Under every rotation and for every pair of
\* i32 coordinates, i32::MIN and i32::MAX included, no subtraction of the
\* remapping overflows i32 when draw_iter runs, and the call does not panic.
RemapInRange ==
    [][DrawIterRuns =>
          /\ ~remap_overflows(rotation, pending[1].p)
          /\ ~panicked']_vars

\* C19: pixel encoding and layout. A write of colour c whose physical pixel
\* (px, py) is on the panel sets bit 7 - px mod 8 of byte py * (W / 8) + px / 8
\* to 0/0 (White), 1/0 (Black) or 0/1 (Red) in the black/red plane and
\* changes no other bit of either plane; and at every moment every physical
\* pixel decodes to the colour last written to it, White if none was.
PixelLayout ==
    /\ [](\A q \in PhysicalGrid : Decode(buffer_black, buffer_red, q) = shadow[q])
    /\ [][DrawIterRuns
            /\ OnPanel(Target(rotation, pending[1].p, SIZE_H, SIZE_V), SIZE_H, SIZE_V) =>
            LET t == Target(rotation, pending[1].p, SIZE_H, SIZE_V)
                c == pending[1].color
                byte == t.y * (SIZE_H \div 8) + t.x \div 8
                bit == 7 - (t.x % 8)
            IN /\ Bit(buffer_black'[byte + 1], bit) = (IF c = "Black" THEN 1 ELSE 0)
               /\ Bit(buffer_red'[byte + 1], bit) = (IF c = "Red" THEN 1 ELSE 0)
               /\ DOMAIN buffer_black' = 1..IMAGE_SIZE
               /\ DOMAIN buffer_red' = 1..IMAGE_SIZE
               /\ \A i \in 0..(IMAGE_SIZE - 1), k \in 0..7 :
                     i # byte \/ k # bit =>
                        /\ Bit(buffer_black'[i + 1], k) = Bit(buffer_black[i + 1], k)
                        /\ Bit(buffer_red'[i + 1], k) = Bit(buffer_red[i + 1], k)]_vars

\* on a panel of several bytes per row the first physical pixel was written
\* red and the last one black, the only bits set in the two planes
PixelLayoutWitness ==
    /\ pending = NoPixels /\ ncalls >= 2
    /\ SIZE_H \div 8 > 1 /\ IMAGE_SIZE > SIZE_V
    /\ buffer_red[1] = 128 /\ buffer_black[IMAGE_SIZE] = 1
    /\ \A i \in 1..IMAGE_SIZE :
          /\ i # 1 => buffer_red[i] = 0
          /\ i # IMAGE_SIZE => buffer_black[i] = 0
    /\ shadow[[x |-> 0, y |-> 0]] = "Red"
    /\ shadow[[x |-> SIZE_H - 1, y |-> SIZE_V - 1]] = "Black"

\* C20: the control lines track the lifecycle. When the last operation
\* returned Ok and left the driver Active, the reset line and the
\* data/command line are high; when power_off returned Ok, both are low; and
\* an init that follows a power_off has driven the reset line high before
\* its first bus write, and the line is high from then on.
ControlLines ==
    /\ epd = "Active" /\ result = "Ok" => rst = "high" /\ dc = "high"
    /\ epd = "Inactive" /\ op = "power_off" /\ result = "Ok" =>
          rst = "low" /\ dc = "low"
    /\ op = "init" /\ last_ok = "power_off" /\ Indexes(log, "spi") # {} =>
          /\ \E k \in 1..(Smallest(Indexes(log, "spi")) - 1) : log[k] = RstSet("high")
          /\ rst = "high"

\* an init after a power_off is past its first bus write
ControlLinesWitness ==
    /\ op = "init" /\ last_ok = "power_off" /\ result = "running"
    /\ Indexes(log, "spi") # {}
    /\ rst = "high" /\ dc = "high"

\* C21: buffer index safety. The panel types are 152x152, 212x104, 296x152,
\* 264x176, 296x128, 416x240, 300x400 and 480x176 (rows x row width), each
\* with a row width that is a multiple of 8 and planes of rows * (width / 8)
\* bytes; on each of them, under every rotation, a pixel that passes the
\* bounds check gets a byte index below that length, and the iteration
\* never ends in the assert! nor in any other panic.
IndexSafety ==
    call.f = "draw_iter" =>
        LET rows == call.panel.SIZE_V
            width == call.panel.SIZE_H
        IN /\ <<rows, width>> \in {<<152, 152>>, <<212, 104>>, <<296, 152>>,
                                   <<264, 176>>, <<296, 128>>, <<416, 240>>,
                                   <<300, 400>>, <<480, 176>>}
           /\ width % 8 = 0
           /\ call.panel.IMAGE_SIZE = rows * (width \div 8)
           /\ call.outcome \in {"continue", "write"}
           /\ call.outcome = "write" =>
                 0 <= call.index /\ call.index < rows * (width \div 8)
           /\ ~panicked

\* the last byte of the planes of the 300x400 panel was reached under 90
\* degrees
IndexSafetyWitness ==
    /\ call.f = "draw_iter" /\ call.outcome = "write"
    /\ call.panel = Display4in17 /\ call.rotation = "Rotate90"
    /\ call.index = 300 * (400 \div 8) - 1

===========================================================================
